---- MODULE Spec2Model ----
(***************************************************************************)
(* Model of the protoo server Peer (src/unnamed/part_000) and of the       *)
(* WebSocketTransport it rides on                                          *)
(* (src/server/lib/transports/WebSocketTransport.js).                      *)
(*                                                                         *)
(* One Peer, a pool of Transports (each wrapping one websocket             *)
(* connection), and a fixed set of outbound requests.  Host calls          *)
(* (request, notify, close, setNewTransport, transport.close) and          *)
(* event-loop callbacks (connection events, timers, setImmediate) are the  *)
(* actions.  A request suspended in `await this._transport.send(...)` is   *)
(* a pending microtask: host code of the same tick may still run, but no   *)
(* event-loop callback runs before the microtask has resumed.              *)
(*                                                                         *)
(* Spec is the Peer with an idle timeout on transports that send no ping;  *)
(* FairSpec adds the event loop's fairness; PingSpec is a transport with   *)
(* a ping interval under a Peer whose host only closes.                    *)
(***************************************************************************)
EXTENDS Integers, Sequences, FiniteSets, TLC

\* ------------------------------------------------------------------ bounds
NumReq == 1          \* outbound requests the host may issue
NumTransports == 2   \* transports the host creates; transport 1 is the
                     \* constructor's, each later one is handed to one call
                     \* of setNewTransport

MaxPings == 2        \* pings a transport sends

Req == 1..NumReq
Transports == 1..NumTransports

\* ------------------------------------------------ close codes and reasons
\* A close event carries <<code, reason>>.  <<0, "">> stands for the event
\* WebSocketTransport.close() emits with no arguments (both undefined).
NoArgs == <<0, "">>
NormalClose == <<4000, "Normal close by server">>
TimedOut == <<1006, "Timed out">>
AlreadyClosed == <<1006, "transport already closed">>
ClosedByServer == <<4000, "closed by protoo-server">>
Reconnecting == <<4001, "reconnecting">>
PingTimeoutArgs == <<1006, "ping timeout">>
\* What the remote end, or the network, may close a connection with.
RemoteCloseArgs ==
    { <<1000, "bye">>,
      <<4001, "reconnecting">>,
      <<1006, "Connection dropped by remote peer.">> }

\* ---------------------------------------------------------------- messages
Responses == [kind : {"response"}, id : Req, ok : BOOLEAN]
Inbound ==
    { [kind |-> "pong"], [kind |-> "request"], [kind |-> "notification"] }
        \cup Responses

VARIABLES
    closed,        \* Peer._closed
    reconnecting,  \* Peer._reconnecting
    transport,     \* Peer._transport: the current transport; the host
                   \* hands over transports 1, 2, ... in turn, so that
                   \* 1..transport are those the Peer holds or has held
    timeout,       \* Peer._timeout is set (an idle timeout is configured)
    timeoutId,     \* the idle watchdog Peer._timeoutId is armed
    sents,         \* keys of Peer._sents
    timer,         \* timer[r]: sent.timer of request r is armed
    pc,            \* pc[r]: where the call request() number r is
    result,        \* result[r]: what the caller of request r observes
    frame,         \* transport the last operation handed a protoo message
                   \* to (a request, notification or response), 0 if none
    tClosed,       \* tClosed[t]: WebSocketTransport._closed
    connection,    \* connection[t]: state of the websocket connection of t
    listeners,     \* listeners[t]: times the Peer subscribed to t
    closeEvents,   \* the Peer's `close` events so far, <<code, reason>> each
    immediates,    \* setImmediate callbacks not yet run
    emitted,       \* Peer events `request`, `notification`, `pong` the last
                   \* operation emitted: their kind and how many
    notified,      \* what the caller of notify() observed, when the last
                   \* operation was a notify(); "none" otherwise
    logged,        \* the last operation logged the error "received
                   \* response does not match any sent request"
    ignored,       \* "Peer.close" when the last operation was a
                   \* Peer.close() that returned at its `_closed` guard,
                   \* "none" otherwise
    tEmitted,      \* tEmitted[t]: `close` events transport t has emitted
    pingTimeout,   \* WebSocketTransport._pingTimeout is set
    pingsOverlap,  \* pingInterval is shorter than pingTimeout: a ping may
                   \* be sent while the timer of an earlier one is armed
    pingIntervalId,\* pingIntervalId[t]: the ping interval of t is armed
    pingTimeoutId, \* pingTimeoutId[t]: the ping whose timer
                   \* _pingTimeoutId refers to, 0 for null
    pingTimers,    \* pingTimers[t]: the pings whose timer is armed
    pings,         \* pings[t]: pings t has sent
    pongs          \* pongs[t]: pings of t the remote end has answered

vars ==
    << closed, reconnecting, transport, timeout, timeoutId, sents, timer, pc,
       result, frame, tClosed, connection, listeners, closeEvents,
       immediates, emitted, notified, logged, ignored, tEmitted,
       pingTimeout, pingsOverlap, pingIntervalId, pingTimeoutId, pingTimers,
       pings, pongs >>

peerFlags == << closed, reconnecting, closeEvents >>
requests == << sents, timer, pc, result >>
\* No Peer event other than `close` was emitted.
NoEvent == [kind |-> "none", n |-> 0]
transportVars == << tClosed, connection, tEmitted >>
\* What the constructors were given and never changes.
config == << timeout, pingTimeout, pingsOverlap >>
pingVars == << pingIntervalId, pingTimeoutId, pingTimers, pings, pongs >>

\* --------------------------------------------------------------- promises
\* The promise request() returns settles once: pResolve / pReject on a
\* settled promise change nothing.
pSettle(cur, outcome) == IF cur = "unsettled" THEN outcome ELSE cur

\* No continuation of an `await` is waiting to run.
NoMicrotask == \A r \in Req : pc[r] \notin {"send", "sendfail"}

\* -------------------------------------------------------------- connection
\* connection.close(code, reason) of the websocket library: starts the
\* closing handshake of an open connection; its `close` event comes later
\* and carries the code and reason given here.
ConnectionClose(c, cr) ==
    IF c.st = "open" THEN [st |-> "closing", cr |-> cr] ELSE c

\* connection.drop(code, reason, true) of the websocket library: destroys
\* the socket without a closing handshake; the `close` event carries the
\* code and reason given here.
ConnectionDrop(c, cr) ==
    IF c.st = "closed" THEN c ELSE [st |-> "dropped", cr |-> cr]

\* connection.sendUTF(text): succeeds on an open connection; on a connection
\* that is closing or closed the library may throw.
SendUTF(c) == IF c.st = "open" THEN {TRUE} ELSE {TRUE, FALSE}

\* ---------------------------------------------------------------- transport
\* Transport.drop(): closes the underlying connection with code 4001 and
\* reason "reconnecting".
Drop(c) == ConnectionClose(c, Reconnecting)

\* WebSocketTransport.send(message): TRUE when the frame was handed to the
\* connection, FALSE when send() throws.
Send(t) ==
    IF tClosed[t] THEN {FALSE} ELSE SendUTF(connection[t])

\* clearTimeout(this._pingTimeoutId): disarms the one timer the field
\* refers to, if it is armed.
ClearPingTimeout(t) == pingTimers[t] \ {pingTimeoutId[t]}

\* As ConnectionCloseIgnored, but the listener lacks its guard.
ConnectionCloseAlwaysHandled(t) == FALSE

\* The guard `if (this._closed) return;` of the connection `close` listener.
ConnectionCloseIgnored(t) == tClosed[t]

\* Transport t becomes closed, in close() or in the connection `close`
\* listener: the flag, the ping interval and the ping timer are dealt with
\* and `close` is emitted.
TransportCloses(t) ==
    /\ tClosed' = [tClosed EXCEPT ![t] = TRUE]
    /\ tEmitted' = [tEmitted EXCEPT ![t] = @ + 1]
    /\ pingIntervalId' = [pingIntervalId EXCEPT ![t] = FALSE]
    /\ pingTimers' = [pingTimers EXCEPT ![t] = ClearPingTimeout(t)]
    /\ UNCHANGED << pingTimeoutId, pings, pongs >>

\* No transport changes.
TransportStays == UNCHANGED << tClosed, tEmitted, pingVars >>

\* WebSocketTransport.close() of transport t, on the connections c, but for
\* what the listeners of its `close` do.
TransportCloseCall(t, c) ==
    IF tClosed[t]
    THEN /\ connection' = c
         /\ TransportStays
    ELSE /\ TransportCloses(t)
         /\ connection' = [c EXCEPT ![t] = ConnectionClose(@, ClosedByServer)]

\* ------------------------------------------------- Peer: transport handlers
\* As SoftDisconnect, but the reason alone no longer makes a close soft.
SoftDisconnectByCodeOnly(cr) == cr[1] = 4001

\* The condition under which a transport `close` is a soft disconnect.
SoftDisconnect(cr) ==
    cr[1] = 4001 \/ cr[2] = "Connection dropped by remote peer."

PeerFlags ==
    [closed |-> closed, reconnecting |-> reconnecting,
     closeEvents |-> closeEvents]

\* The Peer's listener of the transport's `close` event, on the Peer's flags.
TransportCloseHandler(p, cr) ==
    IF p.closed THEN p
    ELSE IF SoftDisconnect(cr) THEN [p EXCEPT !.reconnecting = TRUE]
    ELSE [p EXCEPT !.closed = TRUE, !.closeEvents = Append(@, cr)]

\* safeEmit('close', code, reason) on a transport the Peer subscribed to
\* n times: the listener runs n times.
RECURSIVE EmitClose(_, _, _)
EmitClose(n, p, cr) ==
    IF n = 0 THEN p ELSE EmitClose(n - 1, TransportCloseHandler(p, cr), cr)

SetFlags(p) ==
    /\ closed' = p.closed
    /\ reconnecting' = p.reconnecting
    /\ closeEvents' = p.closeEvents

\* ------------------------------------------------------ Peer: pending sents
\* As ClosedTimers, but sent.close() forgets clearTimeout(sent.timer).
ClosedTimersKept(s) == timer

\* sent.close() of every entry of _sents: the timers.
ClosedTimers(s) == [r \in Req |-> IF r \in s THEN FALSE ELSE timer[r]]

\* As ClosedResults, but sent.close() forgets the pReject.
ClosedResultsForgotten(s) == result

\* sent.close() of every entry of _sents: the callers' results.
ClosedResults(s) ==
    [r \in Req |-> IF r \in s THEN pSettle(result[r], "peer closed")
                   ELSE result[r]]

\* The keys of _sents once every entry's sent.close() has run.
ClosedSents(s) == s

\* ------------------------------------------------------------------- Init
\* The state after `new Peer(id, transport, timeout)`: the constructor's
\* transport is open, or already closed.  idle: whether an idle timeout is
\* given; ping: the transport was constructed with a pingInterval, and is
\* then given a pingTimeout or not.
Start(idle, ping) ==
    /\ timeout \in idle
    /\ \E c \in BOOLEAN :
        /\ tClosed = [t \in Transports |-> t = 1 /\ c]
        /\ connection =
             [t \in Transports |->
                [st |-> IF t = 1 /\ c THEN "closed" ELSE "open", cr |-> NoArgs]]
        /\ closed = c
        /\ immediates = IF c THEN 1 ELSE 0
        /\ listeners = [t \in Transports |-> IF t = 1 /\ ~c THEN 1 ELSE 0]
        /\ tEmitted = [t \in Transports |-> IF t = 1 /\ c THEN 1 ELSE 0]
        /\ pingIntervalId = [t \in Transports |-> ping /\ t = 1 /\ ~c]
    /\ reconnecting = FALSE
    /\ transport = 1
    /\ timeoutId = FALSE
    /\ sents = {}
    /\ timer = [r \in Req |-> FALSE]
    /\ pc = [r \in Req |-> "idle"]
    /\ result = [r \in Req |-> "none"]
    /\ frame = 0
    /\ closeEvents = << >>
    /\ emitted = NoEvent
    /\ notified = "none"
    /\ logged = FALSE
    /\ ignored = "none"
    /\ pingTimeout \in (IF ping THEN BOOLEAN ELSE {FALSE})
    /\ pingsOverlap \in (IF ping THEN BOOLEAN ELSE {FALSE})
    /\ pingTimeoutId = [t \in Transports |-> 0]
    /\ pingTimers = [t \in Transports |-> {}]
    /\ pings = [t \in Transports |-> 0]
    /\ pongs = [t \in Transports |-> 0]

\* The Peer is given an idle timeout (without one its watchdog is never
\* armed); the transports are constructed without pingInterval and send no
\* ping.
Init == Start({TRUE}, FALSE)

\* ------------------------------------------------------------- host calls
\* What the operation that just ran let the outside see: the transport it
\* handed a frame to (0: none), the Peer events it emitted, what it
\* returned to a caller of notify(), whether it logged an unmatched
\* response, and whether it was a Peer.close() that returned at once.
Observes(f, e, n, l, g) ==
    /\ frame' = f
    /\ emitted' = e
    /\ notified' = n
    /\ logged' = l
    /\ ignored' = g

\* The same for an operation that is no notify(), logs no such error and is
\* no close() of a closed Peer.
Observed(f, e) == Observes(f, e, "none", FALSE, "none")

\* As Muted, but the guard tests the closed flag.
MutedWhenClosed == closed

\* The guard `if (this._reconnecting) return;` of request() and notify().
Muted == reconnecting

\* Peer.request(), up to the await of transport.send().
Request(r) ==
    /\ pc[r] = "idle"
    /\ \A q \in Req : q < r => pc[q] # "idle"
    /\ IF Muted
       THEN /\ pc' = [pc EXCEPT ![r] = "done"]
            /\ result' = [result EXCEPT ![r] = "void"]
            /\ Observed(0, NoEvent)
       ELSE \E ok \in Send(transport) :
            /\ pc' = [pc EXCEPT ![r] = IF ok THEN "send" ELSE "sendfail"]
            /\ result' = [result EXCEPT ![r] = "unsettled"]
            /\ Observed(IF ok THEN transport ELSE 0, NoEvent)
    /\ UNCHANGED << peerFlags, transport, config, timeoutId, sents, timer,
                    transportVars, pingVars, listeners, immediates >>

\* As AwaitThrows, but the failure of send() is swallowed, as by the
\* `.catch(() => {})` the Peer puts on the send() of a response.
AwaitNeverThrows(p) == FALSE

\* `await this._transport.send(request)` throws in the continuation of a
\* request() whose send() failed.
AwaitThrows(p) == p = "sendfail"

\* Peer.request(), after the await: the send threw, or the pending entry is
\* registered with its timer.  Continuations run in the order of the calls.
RequestResume(r) ==
    /\ pc[r] \in {"send", "sendfail"}
    /\ \A q \in Req : q < r => pc[q] \notin {"send", "sendfail"}
    /\ pc' = [pc EXCEPT ![r] = "done"]
    /\ IF AwaitThrows(pc[r])
       THEN /\ result' = [result EXCEPT ![r] = pSettle(@, "send failed")]
            /\ UNCHANGED << sents, timer >>
       ELSE /\ sents' = sents \cup {r}
            /\ timer' = [timer EXCEPT ![r] = TRUE]
            /\ UNCHANGED result
    /\ Observed(0, NoEvent)
    /\ UNCHANGED << peerFlags, transport, config, timeoutId,
                    transportVars, pingVars, listeners, immediates >>

\* Peer.notify(): nothing awaits its result but the caller, so that the
\* call and its continuation are one step.
Notify ==
    /\ IF Muted
       THEN Observes(0, NoEvent, "void", FALSE, "none")
       ELSE \E ok \in Send(transport) :
            Observes(IF ok THEN transport ELSE 0, NoEvent,
                     IF ok THEN "sent" ELSE "send failed", FALSE, "none")
    /\ UNCHANGED << peerFlags, transport, config, timeoutId, requests,
                    transportVars, pingVars, listeners, immediates >>

\* As PeerClose, but without the guard `if (this._closed) return;`.
PeerCloseUnguarded(cr, c) ==
    /\ closed' = TRUE
    /\ TransportCloseCall(transport, c)
    /\ timer' = ClosedTimers(sents)
    /\ result' = ClosedResults(sents)
    /\ sents' = ClosedSents(sents)
    /\ closeEvents' = Append(closeEvents, cr)
    /\ UNCHANGED reconnecting

\* Peer.close(code, reason) on the connections c (those of the state, or
\* those a call made just before has left).  WebSocketTransport.close()
\* emits the transport's `close` while the Peer's flag is already set, so
\* the Peer's own listener ignores it.
PeerClose(cr, c) ==
    IF closed
    THEN /\ connection' = c
         /\ TransportStays
         /\ UNCHANGED << peerFlags, sents, timer, result >>
    ELSE /\ closed' = TRUE
         /\ TransportCloseCall(transport, c)
         /\ timer' = ClosedTimers(sents)
         /\ result' = ClosedResults(sents)
         /\ sents' = ClosedSents(sents)
         /\ closeEvents' = Append(closeEvents, cr)
         /\ UNCHANGED reconnecting

\* The host calls Peer.close() with the default code and reason.
Close ==
    /\ PeerClose(NormalClose, connection)
    /\ timeoutId' = IF closed THEN timeoutId ELSE FALSE
    /\ Observes(0, NoEvent, "none", FALSE,
                IF closed THEN "Peer.close" ELSE "none")
    /\ UNCHANGED << transport, config, pc, listeners, immediates >>

\* Peer._handleTransport(): subscribe to the current transport t, or close
\* the Peer when t is already closed (c: transport.closed).
HandleTransport(t, c) ==
    IF c
    THEN /\ closed' = TRUE
         /\ immediates' = immediates + 1
         /\ UNCHANGED listeners
    ELSE /\ listeners' = [listeners EXCEPT ![t] = @ + 1]
         /\ UNCHANGED << closed, immediates >>

\* Peer.setNewTransport(t), with a transport t the Peer has not held
\* before; c: t is already closed when it is handed over.
SetNewTransport(t, c) ==
    /\ t = transport + 1
    /\ t \in Transports
    /\ tClosed' = [tClosed EXCEPT ![t] = c]
    /\ tEmitted' = [tEmitted EXCEPT ![t] = IF c THEN 1 ELSE 0]
    /\ connection' =
         [connection EXCEPT
            ![transport] = Drop(@),
            ![t] = [st |-> IF c THEN "closed" ELSE "open", cr |-> NoArgs]]
    /\ timer' = ClosedTimers(sents)
    /\ result' = ClosedResults(sents)
    /\ sents' = ClosedSents(sents)
    /\ transport' = t
    /\ HandleTransport(t, c)
    /\ Observed(0, NoEvent)
    /\ UNCHANGED << reconnecting, closeEvents, config, timeoutId, pc,
                    pingVars >>

\* The host calls WebSocketTransport.close() on transport t itself.
TransportClose(t) ==
    /\ t <= transport
    /\ TransportCloseCall(t, connection)
    /\ IF tClosed[t]
       THEN UNCHANGED peerFlags
       ELSE SetFlags(EmitClose(listeners[t], PeerFlags, NoArgs))
    /\ Observed(0, NoEvent)
    /\ UNCHANGED << transport, config, timeoutId, requests, listeners,
                    immediates >>

\* ------------------------------------------------------ event-loop callbacks
\* The `close` event of the connection of transport t: with the code and
\* reason of the local connection.close() when there was one, else with
\* those of the remote end.  WebSocketTransport._handleConnection() marks
\* the transport closed and emits its `close`, unless it is closed already.
ConnectionCloseEvent(t, cr) ==
    /\ NoMicrotask
    /\ t <= transport
    /\ connection[t].st # "closed"
    /\ IF connection[t].st \in {"closing", "dropped"} THEN cr = connection[t].cr
       ELSE cr \in RemoteCloseArgs
    /\ connection' = [connection EXCEPT ![t] = [st |-> "closed", cr |-> NoArgs]]
    /\ IF ConnectionCloseIgnored(t)
       THEN /\ TransportStays
            /\ UNCHANGED peerFlags
       ELSE /\ TransportCloses(t)
            /\ SetFlags(EmitClose(listeners[t], PeerFlags, cr))
    /\ Observed(0, NoEvent)
    /\ UNCHANGED << transport, config, timeoutId, requests, listeners,
                    immediates >>

\* Peer._resetTimeout(), when an idle timeout is configured.
ResetTimeout(id) == IF timeout THEN TRUE ELSE id

\* Peer._handleResponse(response): the keys of _sents afterwards.
ResponseSents(s, m) == s \ {m.id}

\* As ResponseTimers, but sent.resolve / sent.reject forget
\* clearTimeout(sent.timer).
ResponseTimersKept(s, m) == timer

\* Peer._handleResponse(response): sent.resolve / sent.reject clear the timer
\* of the entry they removed.
ResponseTimers(s, m) ==
    IF m.id \in s THEN [timer EXCEPT ![m.id] = FALSE] ELSE timer

\* As ResponseResults, but the response is handed to the caller through a
\* plain callback, which a settled request does not ignore.
ResponseResultsCallback(s, m) ==
    IF m.id \in s
    THEN [result EXCEPT ![m.id] = IF m.ok THEN "resolved" ELSE "remote error"]
    ELSE result

\* As ResponseResults, but the response settles the request of its id
\* without looking the id up in _sents.
ResponseResultsNoLookup(s, m) ==
    [result EXCEPT ![m.id] = IF m.ok THEN "resolved" ELSE "remote error"]

\* Peer._handleResponse(response): the callers' results afterwards.
ResponseResults(s, m) ==
    IF m.id \in s
    THEN [result EXCEPT
            ![m.id] = pSettle(@, IF m.ok THEN "resolved" ELSE "remote error")]
    ELSE result

\* Peer._handleResponse(response): no entry of _sents has the response's
\* id, which is logged as an error.
Unmatched(s, m) == m.id \notin s

\* Peer._handleRequest(request): the transport that is handed the response
\* when the application calls accept() or reject() inside its `request`
\* listener; 0 when it answers later or never, or when the send fails.
RequestReply == {0} \cup { IF ok THEN transport ELSE 0 : ok \in Send(transport) }

\* A text frame arrives on the connection of transport t.  "pong" goes to
\* WebSocketTransport._handlePong(), anything else is parsed and emitted as
\* `message`; the Peer's listeners (one per subscription) run in turn.
ConnectionMessage(t, m) ==
    /\ NoMicrotask
    /\ t <= transport
    /\ connection[t].st \in {"open", "closing"}
    /\ IF m.kind = "pong"
       THEN /\ pingTimers' = [pingTimers EXCEPT ![t] = ClearPingTimeout(t)]
            /\ pongs' = [pongs EXCEPT ![t] = IF @ < pings[t] THEN @ + 1 ELSE @]
            /\ UNCHANGED << pingIntervalId, pingTimeoutId, pings >>
       ELSE UNCHANGED pingVars
    /\ IF listeners[t] = 0
       THEN /\ Observed(0, NoEvent)
            /\ UNCHANGED << timeoutId, sents, timer, result >>
       ELSE /\ timeoutId' = ResetTimeout(timeoutId)
            /\ IF m.kind = "response"
               THEN /\ sents' = ResponseSents(sents, m)
                    /\ timer' = ResponseTimers(sents, m)
                    /\ result' = ResponseResults(sents, m)
                    /\ Observes(0, NoEvent, "none", Unmatched(sents, m), "none")
               ELSE /\ \E f \in IF m.kind = "request" THEN RequestReply ELSE {0} :
                         Observed(f, [kind |-> m.kind, n |-> listeners[t]])
                    /\ UNCHANGED << sents, timer, result >>
    /\ UNCHANGED << peerFlags, transport, config, pc, transportVars,
                    listeners, immediates >>

\* The callback of sent.timer of request r.
SentTimer(r) ==
    /\ NoMicrotask
    /\ timer[r]
    /\ timer' = [timer EXCEPT ![r] = FALSE]
    /\ sents' = sents \ {r}
    /\ result' = IF r \in sents
                 THEN [result EXCEPT ![r] = pSettle(@, "request timeout")]
                 ELSE result
    /\ Observed(0, NoEvent)
    /\ UNCHANGED << peerFlags, transport, config, timeoutId, pc,
                    transportVars, pingVars, listeners, immediates >>

\* Peer._handleTimeout(): the idle watchdog fires.
HandleTimeout ==
    /\ NoMicrotask
    /\ timeoutId
    /\ timeoutId' = FALSE
    /\ PeerClose(TimedOut, [connection EXCEPT ![transport] = Drop(@)])
    /\ Observed(0, NoEvent)
    /\ UNCHANGED << transport, config, pc, listeners, immediates >>

\* WebSocketTransport._sendPing(): the ping interval of transport t fires.
\* With pingInterval not shorter than pingTimeout the timer of the ping
\* before has fired or was cleared by now.  A sendUTF that throws ends the
\* callback before the timer is set.
SendPing(t) ==
    /\ NoMicrotask
    /\ t <= transport
    /\ pingIntervalId[t]
    /\ pings[t] < MaxPings
    /\ pingsOverlap \/ pingTimers[t] = {}
    /\ \E ok \in SendUTF(connection[t]) :
         IF tClosed[t] \/ ~ok
         THEN UNCHANGED << pings, pingTimers, pingTimeoutId >>
         ELSE /\ pings' = [pings EXCEPT ![t] = @ + 1]
              /\ IF pingTimeout
                 THEN /\ pingTimers' =
                           [pingTimers EXCEPT ![t] = @ \cup {pings[t] + 1}]
                      /\ pingTimeoutId' =
                           [pingTimeoutId EXCEPT ![t] = pings[t] + 1]
                 ELSE UNCHANGED << pingTimers, pingTimeoutId >>
    /\ Observed(0, NoEvent)
    /\ UNCHANGED << peerFlags, transport, config, timeoutId, requests,
                    transportVars, pingIntervalId, pongs, listeners,
                    immediates >>

\* WebSocketTransport._handlePingTimeout(): the timer set for ping k of
\* transport t fires.
HandlePingTimeout(t, k) ==
    /\ NoMicrotask
    /\ t <= transport
    /\ k \in pingTimers[t]
    /\ pingTimers' = [pingTimers EXCEPT ![t] = @ \ {k}]
    /\ connection' =
         [connection EXCEPT ![t] = ConnectionDrop(@, PingTimeoutArgs)]
    /\ Observed(0, NoEvent)
    /\ UNCHANGED << peerFlags, transport, config, timeoutId, requests,
                    tClosed, tEmitted, pingIntervalId, pingTimeoutId, pings,
                    pongs, listeners, immediates >>

\* The setImmediate callback of _handleTransport(): the deferred `close`.
Immediate ==
    /\ NoMicrotask
    /\ immediates > 0
    /\ immediates' = immediates - 1
    /\ closeEvents' = Append(closeEvents, AlreadyClosed)
    /\ Observed(0, NoEvent)
    /\ UNCHANGED << closed, reconnecting, transport, config, timeoutId,
                    requests, transportVars, pingVars, listeners >>

\* ------------------------------------------------------------------- Next
Next ==
    \/ \E r \in Req : Request(r)
    \/ \E r \in Req : RequestResume(r)
    \/ Notify
    \/ Close
    \/ \E t \in Transports : \E c \in BOOLEAN : SetNewTransport(t, c)
    \/ \E t \in Transports : TransportClose(t)
    \/ \E t \in Transports : \E cr \in RemoteCloseArgs \cup {ClosedByServer, Reconnecting} :
          ConnectionCloseEvent(t, cr)
    \/ \E t \in Transports : \E m \in Inbound : ConnectionMessage(t, m)
    \/ \E r \in Req : SentTimer(r)
    \/ HandleTimeout
    \/ Immediate

Spec == Init /\ [][Next]_vars

\* The event loop runs what is due: the continuation of an `await` whose
\* promise has settled, and the callback of an armed setTimeout.
Fairness ==
    \A r \in Req : WF_vars(RequestResume(r)) /\ WF_vars(SentTimer(r))

FairSpec == Spec /\ Fairness

\* The transport of the constructor was given a pingInterval, the Peer an
\* idle timeout or none; the host makes no call but close() on the Peer or
\* on the transport.
PingInit == Start(BOOLEAN, TRUE)

PingNext ==
    \/ Close
    \/ \E t \in Transports : TransportClose(t)
    \/ \E t \in Transports :
          \E cr \in RemoteCloseArgs \cup {ClosedByServer, Reconnecting, PingTimeoutArgs} :
             ConnectionCloseEvent(t, cr)
    \/ \E t \in Transports : \E m \in Inbound : ConnectionMessage(t, m)
    \/ \E t \in Transports : SendPing(t)
    \/ \E t \in Transports : \E k \in 1..MaxPings : HandlePingTimeout(t, k)
    \/ HandleTimeout
    \/ Immediate

PingSpec == PingInit /\ [][PingNext]_vars

\* ------------------------------------------------------------------ claims
\* What a caller of request() can have observed once the call is over.
Settled ==
    { "void", "resolved", "remote error", "peer closed", "request timeout",
      "send failed" }

\* Every <<code, reason>> a transport `close` event can carry.
CloseArgs == RemoteCloseArgs \cup {ClosedByServer, Reconnecting, NoArgs}

\* Transport t closes on its own: its connection's `close` makes it emit
\* `close` with <<code, reason>> cr to the Peer's listener.
TransportClosesItself(t, cr) ==
    /\ listeners[t] > 0
    /\ ~tClosed[t]
    /\ tClosed'[t]
    /\ ConnectionCloseEvent(t, cr)

\* A transport `close` event with <<code, reason>> cr reaches the Peer's
\* listener on transport t: from the connection's `close`, or from the
\* host's transport.close().
TransportCloseEmitted(t, cr) ==
    \/ TransportClosesItself(t, cr)
    \/ /\ cr = NoArgs
       /\ listeners[t] > 0
       /\ ~tClosed[t]
       /\ tClosed'[t]
       /\ TransportClose(t)

\* C1: a request's result is completed at most once: once the caller has
\* observed an outcome, no later response, timer, close or setNewTransport
\* changes it.
C1_CompletedAtMostOnce ==
    [][\A r \in Req : result[r] \in Settled => result'[r] = result[r]]_vars

\* C1 witness: a request was rejected "peer closed" by the close hook and a
\* matching response then found its entry and removed it.
C1_Witness ==
    \E r \in Req : result[r] = "peer closed" /\ pc[r] = "done" /\ r \notin sents

\* C2: right after Peer.close() and right after Peer.setNewTransport() the
\* pending-request table is empty.
C2_TableEmptyAfterCloseOrSwap ==
    [][(Close \/ \E t \in Transports : \E c \in BOOLEAN : SetNewTransport(t, c))
          => sents' = {}]_vars

\* C3: the Peer's `close` event is emitted (or scheduled) exactly once when
\* the Peer is closed, and never a second time.
C3_CloseEmittedExactlyOnce ==
    /\ Len(closeEvents) + immediates <= 1
    /\ closed => Len(closeEvents) + immediates = 1

\* C4: once closed is true it stays true, no frame is handed to any
\* transport and no pending entry is registered.
C4_ClosedIsTerminal ==
    [][closed => closed' /\ frame' = 0 /\ sents' \subseteq sents]_vars

\* C5: every request outstanding when Peer.close() is called is rejected
\* with "peer closed" by that call.
C5_CloseRejectsOutstanding ==
    [][Close => \A r \in Req :
                   result[r] = "unsettled" => result'[r] = "peer closed"]_vars

\* C6: when a hard close of the current transport closes the Peer, every
\* outstanding request is rejected with "peer closed" as part of it.
C6_HardCloseRejectsOutstanding ==
    [][\A cr \in CloseArgs :
          (TransportClosesItself(transport, cr) /\ ~closed /\ closed')
             => \A r \in Req :
                   result[r] = "unsettled" => result'[r] = "peer closed"]_vars

\* C7: installing a new open transport with setNewTransport clears
\* reconnecting.
C7_SwapClearsReconnecting ==
    [][(\E t \in Transports : SetNewTransport(t, FALSE)) => ~reconnecting']_vars

\* C8 as claimed: setNewTransport cancels the timer of every pending entry
\* and rejects it with "peer closed", and neither closes the Peer nor emits
\* (or schedules) its `close`.
C8_SwapRejectsAndNeverCloses ==
    [][\A t \in Transports : \A c \in BOOLEAN :
          SetNewTransport(t, c)
             => /\ \A r \in sents : ~timer'[r] /\ result'[r] = "peer closed"
                /\ closed' = closed
                /\ closeEvents' = closeEvents
                /\ immediates' = immediates]_vars

\* C8 amended: the same, for a new transport that is not already closed.
C8_SwapToOpenTransport ==
    [][\A t \in Transports :
          SetNewTransport(t, FALSE)
             => /\ \A r \in sents : ~timer'[r] /\ result'[r] = "peer closed"
                /\ closed' = closed
                /\ closeEvents' = closeEvents
                /\ immediates' = immediates]_vars

\* C8 witness: a swap to an open transport has rejected a pending request
\* with "peer closed" and the Peer is neither closed nor has emitted `close`.
C8_Witness ==
    /\ transport > 1
    /\ ~closed
    /\ closeEvents = << >>
    /\ immediates = 0
    /\ \E r \in sents : result[r] = "peer closed" /\ ~timer[r]

\* C9: with an idle timeout configured on an open Peer the watchdog is
\* armed, so that it fires when nothing arrives for idleTimeout.
C9_WatchdogArmedWhileOpen == (timeout /\ ~closed) => timeoutId

\* C10: a transport `close(code, reason)` reaching the Peer's listener is
\* ignored when the Peer is closed; else with code 4001 or the reason
\* "Connection dropped by remote peer." it sets reconnecting and nothing
\* else; else it sets closed and emits close(code, reason).
C10_TransportCloseEvent ==
    [][\A t \in Transports :
          (~tClosed[t] /\ tClosed'[t]) =>
          \A cr \in CloseArgs :
          TransportCloseEmitted(t, cr)
             => /\ immediates' = immediates
                /\ IF closed
                   THEN UNCHANGED << closed, reconnecting, closeEvents >>
                   ELSE IF cr[1] = 4001
                           \/ cr[2] = "Connection dropped by remote peer."
                   THEN /\ reconnecting'
                        /\ ~closed'
                        /\ closeEvents' = closeEvents
                   ELSE /\ closed'
                        /\ closeEvents' = Append(closeEvents, cr)
                        /\ reconnecting' = reconnecting]_vars

\* C10 witness: the Peer went through a soft disconnect, and a later hard
\* close of its transport closed it and was emitted.
C10_Witness ==
    /\ reconnecting
    /\ closed
    /\ closeEvents = << <<1000, "bye">> >>

\* C11: while reconnecting, request() and notify() return empty at once:
\* no frame is handed to a transport, no pending entry is registered, no
\* timer is armed, and the caller sees no rejection.
C11_MutedWhileReconnecting ==
    [][reconnecting =>
          /\ \A r \in Req :
                Request(r) => /\ result'[r] = "void"
                              /\ pc'[r] = "done"
                              /\ frame' = 0
                              /\ sents' = sents
                              /\ timer' = timer
          /\ Notify => /\ notified' = "void"
                       /\ frame' = 0
                       /\ UNCHANGED << sents, timer, result >>]_vars

\* C11 witness: a request() made while reconnecting has returned empty, with
\* no entry and no timer, and the notify() after it returned empty as well.
C11_Witness ==
    /\ reconnecting
    /\ notified = "void"
    /\ \E r \in Req : result[r] = "void" /\ r \notin sents /\ ~timer[r]

\* C12: when transport.send() fails for a request, the caller observes the
\* failure, and no pending entry is registered and no timer armed: the
\* pending table is as it was before the call.
C12_SendFailureRegistersNothing ==
    [][\A r \in Req :
          /\ (pc[r] = "idle" /\ pc'[r] = "sendfail" /\ Request(r))
                => frame' = 0 /\ UNCHANGED << sents, timer >>
          /\ (pc[r] = "sendfail" /\ RequestResume(r))
                => /\ result'[r] = "send failed"
                   /\ UNCHANGED << sents, timer >>]_vars

\* C12 witness: a request() whose send() threw has rejected with the send's
\* failure, and has neither an entry nor a timer.
C12_Witness ==
    \E r \in Req :
        pc[r] = "done" /\ result[r] = "send failed" /\ r \notin sents /\ ~timer[r]

\* C13: an inbound response whose id is not in the pending table (one that
\* arrives after its request timed out included) is dropped: the table,
\* every request's outcome and timer, and the closed and reconnecting flags
\* are unchanged, and nothing is emitted to the application.
C13_UnmatchedResponseDropped ==
    [][logged' =>
          /\ \E t \in Transports : \E m \in Responses :
                m.id \notin sents /\ ConnectionMessage(t, m)
          /\ UNCHANGED << sents, result, timer >>
          /\ UNCHANGED << closed, reconnecting, closeEvents, immediates >>
          /\ emitted' = NoEvent
          /\ frame' = 0]_vars

\* C13 witness: a response has just arrived for a request that had timed
\* out, and was logged as matching no sent request.
C13_Witness ==
    /\ logged
    /\ \E r \in Req : result[r] = "request timeout" /\ r \notin sents

\* C14: Peer.close() is idempotent: a close() on a closed Peer changes
\* nothing and has no effect: no further transport.close(), no further
\* rejection, no further `close` event.
C14_CloseIdempotent ==
    [][(closed /\ Close)
          => /\ UNCHANGED << closed, reconnecting, closeEvents, immediates >>
             /\ UNCHANGED << transport, timeout, timeoutId, listeners >>
             /\ UNCHANGED << sents, timer, pc, result >>
             /\ UNCHANGED << tClosed, connection >>
             /\ frame' = 0
             /\ emitted' = NoEvent]_vars

\* C14 witness: close() was called on an open Peer with a pending request,
\* which closed the transport, rejected the request and emitted one `close`;
\* a further close() has just returned at once.
C14_Witness ==
    /\ ignored = "Peer.close"
    /\ closeEvents = << NormalClose >>
    /\ tClosed[transport]
    /\ \E r \in sents : result[r] = "peer closed"

\* C15: for a registered request whose response arrives and whose timer
\* fires, in either order, the first of the two settles it and the other
\* changes nothing: a response first resolves it (or rejects it with the
\* remote error), removes the entry and clears the timer; the timer first
\* rejects it with "request timeout" and removes the entry, so that the
\* later response matches nothing.
C15_FirstOfResponseAndTimerWins ==
    [][\A r \in Req :
          /\ (r \in sents /\ result[r] = "unsettled")
                => /\ \A t \in Transports : \A ok \in BOOLEAN :
                         (/\ listeners[t] > 0
                          /\ ConnectionMessage(
                                t, [kind |-> "response", id |-> r, ok |-> ok]))
                            => /\ result'[r] =
                                    IF ok THEN "resolved" ELSE "remote error"
                               /\ r \notin sents'
                               /\ ~timer'[r]
                   /\ SentTimer(r)
                         => /\ result'[r] = "request timeout"
                            /\ r \notin sents'
                            /\ ~timer'[r]
          /\ result[r] \in {"resolved", "remote error", "request timeout"}
                => /\ result'[r] = result[r]
                   /\ r \notin sents'
                   /\ ~timer'[r]]_vars

\* C15 witness: the response came first and rejected the request with the
\* remote error; its entry is gone and its timer is cleared.
C15_Witness ==
    \E r \in Req :
        result[r] = "remote error" /\ r \notin sents /\ ~timer[r] /\ ~closed

\* C16: every request() the host makes eventually settles: resolved, or
\* rejected with the remote error, "peer closed", "request timeout" or the
\* send's failure, or returned empty while reconnecting; whatever the
\* interleaving with close(), setNewTransport() and the transport's events.
C16_EveryRequestSettles ==
    <>[](\A r \in Req : pc[r] = "idle" \/ result[r] \in Settled)

\* C16 witness: a request registered after the Peer was closed, which no
\* close hook rejects, was settled by its timer.
C16_Witness ==
    \E r \in Req :
        /\ closed
        /\ closeEvents = << NormalClose >>
        /\ result[r] = "request timeout"
        /\ transport = 1

\* C17: a transport emits `close` exactly once, when it becomes closed,
\* whichever of transport.close() and the connection's `close` comes first
\* and however often each comes; a close() of a closed transport changes
\* nothing; and on a closed transport send() fails: the request() or
\* notify() a Peer that is not reconnecting makes on it ends with the send's
\* failure and hands over no frame.
C17_TransportClosesOnce ==
    [][/\ \A t \in Transports :
             /\ tClosed[t] => tClosed'[t]
             /\ tEmitted'[t] = IF tClosed'[t] THEN 1 ELSE 0
       /\ \/ UNCHANGED << tClosed, connection, tEmitted,
                        closed, reconnecting, closeEvents >>
          \/ \A t \in Transports : ~(tClosed[t] /\ TransportClose(t))
       /\ (tClosed[transport] /\ ~reconnecting)
             => /\ \A r \in Req :
                      (pc[r] = "idle" /\ pc'[r] # "idle")
                         => pc'[r] = "sendfail" /\ frame' = 0
                /\ notified' # "none"
                      => notified' = "send failed" /\ frame' = 0]_vars

\* C17 witness: the transport was closed by transport.close() and the
\* `close` of its connection came after that: one `close` was emitted, the
\* one of close(), which closed the Peer.
C17_Witness ==
    /\ tClosed[1]
    /\ tEmitted[1] = 1
    /\ connection[1].st = "closed"
    /\ closeEvents = << NoArgs >>

\* C18: after setNewTransport() the events of a replaced transport (the
\* `close` that follows its drop(), a late message or pong) do not change
\* the Peer: they set neither reconnecting nor closed, emit no `close`, and
\* are not dispatched to the Peer's handlers.
C18_ReplacedTransportIgnored ==
    [][\A t \in Transports :
          t < transport =>
             /\ \A cr \in CloseArgs :
                   ConnectionCloseEvent(t, cr)
                      => UNCHANGED << closed, reconnecting, closeEvents,
                                      immediates >>
             /\ \A m \in Inbound :
                   ConnectionMessage(t, m)
                      => /\ UNCHANGED << closed, reconnecting, closeEvents,
                                         immediates >>
                         /\ UNCHANGED << sents, timer, result >>
                         /\ emitted' = NoEvent
                         /\ frame' = 0]_vars

\* C19: the ping watchdog of a transport drops the connection only for a
\* ping that was not answered in time: the timer set for ping k does not
\* fire once the pong that answers ping k has arrived, also when several
\* pings are in flight; and no ping timer is armed on a closed transport.
C19_PingWatchdog ==
    [][\A t \in Transports :
          /\ \A k \in 1..MaxPings : HandlePingTimeout(t, k) => pongs[t] < k
          /\ tClosed'[t] => pingTimers'[t] = {}]_vars

\* C20: once the Peer is closed, a frame its transport delivers is not
\* acted on: no `request`, `notification` or `pong` is emitted, no response
\* frame is sent, and the idle watchdog is not re-armed.
C20_ClosedPeerIgnoresFrames ==
    [][closed =>
          \A m \in Inbound :
             ConnectionMessage(transport, m)
                => /\ emitted' = NoEvent
                   /\ frame' = 0
                   /\ timeoutId' = timeoutId]_vars

====
